---- MODULE Spec2Model ----
(***************************************************************************)
(* Model of src/src/weather_dashboard.py: the WeatherDashboard class       *)
(* (create_bucket_if_not_exists, fetch_weather, save_to_s3,                *)
(* plot_weather_data) and the sequential driver main().                    *)
(*                                                                         *)
(* The three external collaborators (OpenWeather HTTP API, S3, the         *)
(* matplotlib display) answer nondeterministically.  Every call the        *)
(* program makes to one of them is appended to the history variable        *)
(* `calls`.  A provider payload is a Python dict, modelled as a function   *)
(* from key names to values; the nested paths main() dereferences          *)
(* (['main']['temp'], ['weather'][0]['description'], ...) are flattened    *)
(* to one key each.                                                        *)
(***************************************************************************)
EXTENDS Integers, Sequences, FiniteSets, TLC

VARIABLES pc, i, weather_data, success, exc, bucketExists, objects, calls, saves, clock, ticks

vars == <<pc, i, weather_data, success, exc, bucketExists, objects, calls, saves, clock, ticks>>

(* ------------------------------ bounds --------------------------------- *)

\* how many times the wall clock advances by one second during a run
MaxTicks == 2
\* how many distinct numeric readings the provider can report
MaxVal == 1
\* how many save_to_s3 calls the method-level driver performs
MaxCalls == 2

(* ---------------------------- program data ----------------------------- *)

\* main(): cities = ["Philadelphia", "Seattle", "New York"]
Cities == <<"Philadelphia", "Seattle", "New York">>

\* the fields main() dereferences before saving (lines 124-127)
MainFields == {"temp", "feels_like", "humidity", "description"}

\* the fields plot_weather_data dereferences (lines 86-88)
PlotFields == {"temp", "feels_like", "humidity"}

\* keys a provider payload may carry: the four above, plus a top-level
\* "timestamp" entry of the provider's own (uninterpreted metadata)
PayloadKeys == MainFields \cup {"timestamp"}

\* Python None, and a dict d
None == [isNone |-> TRUE, d |-> [k \in {} |-> 0]]
Dict(d) == [isNone |-> FALSE, d |-> d]

\* the dict with keys S whose numeric readings are v
Payload(S, v) ==
    [k \in S |-> CASE k = "description" -> "clear sky"
                   [] k = "timestamp"   -> "provider-time"
                   [] k = "temp"        -> 70 + v
                   [] k = "feels_like"  -> 65 + v
                   [] OTHER             -> 40 + v]

\* every JSON body response.json() can return in the model
Bodies == {Payload(S, v) : S \in SUBSET PayloadKeys, v \in 1..MaxVal}

\* Python truthiness of fetch_weather's result (mutant: everything is truthy)
Truthy_Always(wd) == TRUE
Truthy(wd) == ~wd.isNone /\ DOMAIN wd.d # {}

\* d[k] raises KeyError unless k is a key of d
HasKeys(wd, S) == ~wd.isNone /\ S \subseteq DOMAIN wd.d

\* weather_data[k] = v  (line 69)
SetItem(d, k, v) == [x \in DOMAIN d \cup {k} |-> IF x = k THEN v ELSE d[x]]

(* ------------------------- timestamp and key --------------------------- *)

Digit(n) ==
    CASE n = 0 -> "0" [] n = 1 -> "1" [] n = 2 -> "2" [] n = 3 -> "3"
      [] n = 4 -> "4" [] n = 5 -> "5" [] n = 6 -> "6" [] n = 7 -> "7"
      [] n = 8 -> "8" [] n = 9 -> "9"

TwoDigits(n) == Digit((n \div 10) % 10) \o Digit(n % 10)

\* datetime.now().strftime('%Y%m%d-%H%M%S'); the wall clock t counts the
\* seconds since 2026-11-01 00:00:00 local time (mutant: '%Y%m%d-%H%M')
Strftime_NoSeconds(t) ==
    "202611" \o TwoDigits(1 + t \div 86400) \o "-"
             \o TwoDigits((t \div 3600) % 24) \o TwoDigits((t \div 60) % 60)
Strftime(t) ==
    "202611" \o TwoDigits(1 + t \div 86400) \o "-"
             \o TwoDigits((t \div 3600) % 24) \o TwoDigits((t \div 60) % 60)
             \o TwoDigits(t % 60)

\* file_name = f"weather-data/{city}-{timestamp}.json"  (line 65)
FileName(city, timestamp) == "weather-data/" \o city \o "-" \o timestamp \o ".json"

(* ------------------------------ json ----------------------------------- *)

\* a fixed enumeration of the keys, standing for the dict's iteration order
KeyOrder == <<"temp", "feels_like", "humidity", "description", "timestamp">>

RECURSIVE DumpFrom(_, _)
DumpFrom(d, n) ==
    IF n > Len(KeyOrder) THEN <<>>
    ELSE IF KeyOrder[n] \in DOMAIN d
         THEN <<(<<KeyOrder[n], d[KeyOrder[n]]>>)>> \o DumpFrom(d, n + 1)
         ELSE DumpFrom(d, n + 1)

\* json.dumps(weather_data): the document, one (key, value) member after
\* another (mutant: the member written last is lost)
JsonDumps_DropLast(d) ==
    LET s == DumpFrom(d, 1) IN IF s = <<>> THEN s ELSE SubSeq(s, 1, Len(s) - 1)
JsonDumps(d) == DumpFrom(d, 1)

\* json.loads of a stored document: the reader's view of the body
JsonLoads(s) ==
    [k \in {s[n][1] : n \in DOMAIN s} |->
        LET n == CHOOSE m \in DOMAIN s : s[m][1] = k /\ \A l \in DOMAIN s : s[l][1] = k => l <= m
        IN  s[n][2]]

(* ------------------------------ storage -------------------------------- *)

\* s3_client.put_object(Bucket, Key, Body): last writer for a key wins
PutObject(objs, key, body) ==
    [x \in DOMAIN objs \cup {key} |-> IF x = key THEN body ELSE objs[x]]

\* one entry of the call history: the operation, its city, whether it
\* succeeded, the key and dict it carried, and for a put the clock reading
\* the key was derived from
Call(op, city, ok, key, data, t) ==
    [op |-> op, city |-> city, ok |-> ok, key |-> key, data |-> data, t |-> t]

(* --------------------------- WeatherDashboard -------------------------- *)

\* save_to_s3(weather_data, city) run at wall-clock time now against the
\* stored objects objs; putOk is the storage service's answer to put_object.
\* Yields the return value, the (mutated) dict, the objects afterwards and
\* the storage calls issued.
\* (mutant: the `if not weather_data` guard of lines 59-60 is missing; with
\* None the assignment of line 69 raises inside the try and is caught)
SaveToS3_NoGuard(wd, city, now, putOk, objs) ==
    IF wd.isNone
    THEN [ret |-> FALSE, wd |-> wd, objects |-> objs, issued |-> <<>>]
    ELSE LET timestamp == Strftime(now)
             file_name == FileName(city, timestamp)
             stamped   == Dict(SetItem(wd.d, "timestamp", timestamp))
         IN  [ret     |-> putOk,
              wd      |-> stamped,
              objects |-> IF putOk THEN PutObject(objs, file_name, JsonDumps(stamped.d))
                                   ELSE objs,
              issued  |-> <<Call("put", city, putOk, file_name, stamped, now)>>]
SaveToS3(wd, city, now, putOk, objs) ==
    IF ~Truthy(wd)
    THEN [ret |-> FALSE, wd |-> wd, objects |-> objs, issued |-> <<>>]
    ELSE LET timestamp == Strftime(now)
             file_name == FileName(city, timestamp)
             stamped   == Dict(SetItem(wd.d, "timestamp", timestamp))
         IN  [ret     |-> putOk,
              wd      |-> stamped,
              objects |-> IF putOk THEN PutObject(objs, file_name, JsonDumps(stamped.d))
                                   ELSE objs,
              issued  |-> <<Call("put", city, putOk, file_name, stamped, now)>>]

\* what fetch_weather returns for a provider response: a RequestException
\* (transport failure, non-success status) is caught and gives None, a
\* success gives response.json()
FetchResult(response) ==
    IF response.kind = "json" THEN Dict(response.body) ELSE None

\* the answers the provider can give to one request
Responses ==
    {[kind |-> k, body |-> Payload({}, 1)] : k \in {"transport_error", "http_error"}}
    \cup {[kind |-> "json", body |-> b] : b \in Bodies}

(* ------------------------------- main() -------------------------------- *)

\* the wall-clock readings a run may start at (just before a minute, an
\* hour and a day roll over)
ClockStarts == {59, 3599, 86399}

Init ==
    /\ pc = "setup"
    /\ i = 1
    /\ weather_data = None
    /\ success = FALSE
    /\ exc = "none"
    /\ bucketExists \in BOOLEAN
    /\ objects = [k \in {} |-> <<>>]
    /\ calls = <<>>
    /\ saves = 0
    /\ clock \in ClockStarts
    /\ ticks = 0

\* the loop header: the next city, or the end of main()
Advance(n) == IF n < Len(Cities) THEN "fetch" ELSE "done"

\* dashboard.create_bucket_if_not_exists()  (line 113, method lines 20-33)
\* (mutant: a failed creation is not caught and ends the run)
CreateBucketIfNotExists_Fatal ==
    /\ pc = "setup"
    /\ \/ /\ bucketExists
          /\ calls' = Append(calls, Call("head", "", TRUE, "", None, 0))
          /\ pc' = "fetch"
          /\ UNCHANGED <<bucketExists, exc>>
       \/ \E createOk \in BOOLEAN :
             /\ calls' = calls \o <<Call("head", "", FALSE, "", None, 0),
                                    Call("create", "", createOk, "", None, 0)>>
             /\ bucketExists' = (bucketExists \/ createOk)
             /\ pc' = IF createOk THEN "fetch" ELSE "crashed"
             /\ exc' = IF createOk THEN exc ELSE "ClientError"
    /\ UNCHANGED <<i, weather_data, success, objects, saves, clock, ticks>>
\* (mutant: creation is attempted whatever the probe answered)
CreateBucketIfNotExists_AlwaysCreate ==
    /\ pc = "setup"
    /\ \E headOk \in BOOLEAN, createOk \in BOOLEAN :
          /\ headOk => bucketExists
          /\ calls' = calls \o <<Call("head", "", headOk, "", None, 0),
                                 Call("create", "", createOk, "", None, 0)>>
          /\ bucketExists' = (bucketExists \/ createOk)
    /\ pc' = "fetch"
    /\ UNCHANGED <<i, weather_data, success, exc, objects, saves, clock, ticks>>
CreateBucketIfNotExists ==
    /\ pc = "setup"
    /\ \/ \* head_bucket answers: the bucket exists
          /\ bucketExists
          /\ calls' = Append(calls, Call("head", "", TRUE, "", None, 0))
          /\ UNCHANGED bucketExists
       \/ \* head_bucket raises (absent, or any other error): create_bucket
          \E createOk \in BOOLEAN :
             /\ calls' = calls \o <<Call("head", "", FALSE, "", None, 0),
                                    Call("create", "", createOk, "", None, 0)>>
             /\ bucketExists' = (bucketExists \/ createOk)
    /\ pc' = "fetch"
    /\ UNCHANGED <<i, weather_data, success, exc, objects, saves, clock, ticks>>

\* weather_data = dashboard.fetch_weather(city)  (line 121, method lines 35-55)
FetchWeather ==
    /\ pc = "fetch"
    /\ \E response \in Responses :
          /\ weather_data' = FetchResult(response)
          /\ calls' = Append(calls, Call("fetch", Cities[i], response.kind = "json", "",
                                         FetchResult(response), 0))
    /\ pc' = "details"
    /\ UNCHANGED <<i, success, exc, bucketExists, objects, saves, clock, ticks>>

\* `if weather_data:` with the four dereferences of lines 124-127, and the
\* else branch of lines 141-142
PrintDetails ==
    /\ pc = "details"
    /\ IF ~Truthy(weather_data)
       THEN /\ pc' = Advance(i)
            /\ i' = i + 1
            /\ exc' = exc
       ELSE IF ~HasKeys(weather_data, MainFields)
       THEN /\ pc' = "crashed"
            /\ exc' = "KeyError"
            /\ i' = i
       ELSE /\ pc' = "save"
            /\ exc' = exc
            /\ i' = i
    /\ UNCHANGED <<weather_data, success, bucketExists, objects, calls, saves, clock, ticks>>

\* success = dashboard.save_to_s3(weather_data, city)  (lines 135-137)
\* (mutant: a failed put_object is not caught and ends the run)
SaveStep_Raises ==
    /\ pc = "save"
    /\ \E putOk \in BOOLEAN :
          /\ putOk => bucketExists
          /\ LET r == SaveToS3(weather_data, Cities[i], clock, putOk, objects)
             IN  /\ success' = r.ret
                 /\ weather_data' = r.wd
                 /\ objects' = r.objects
                 /\ calls' = calls \o r.issued
                 /\ pc' = IF putOk THEN "plot" ELSE "crashed"
                 /\ exc' = IF putOk THEN exc ELSE "ClientError"
    /\ saves' = saves + 1
    /\ UNCHANGED <<i, bucketExists, clock, ticks>>
SaveStep ==
    /\ pc = "save"
    /\ \E putOk \in BOOLEAN :
          /\ putOk => bucketExists
          /\ LET r == SaveToS3(weather_data, Cities[i], clock, putOk, objects)
             IN  /\ success' = r.ret
                 /\ weather_data' = r.wd
                 /\ objects' = r.objects
                 /\ calls' = calls \o r.issued
    /\ saves' = saves + 1
    /\ pc' = "plot"
    /\ UNCHANGED <<i, exc, bucketExists, clock, ticks>>

\* dashboard.plot_weather_data(weather_data, city)  (line 140, method lines
\* 83-106): nothing catches what the dereferences or the display raise
\* (mutant: the chart is drawn only after the next city's fetch is under way,
\* i.e. the loop moves on before rendering)
PlotStep_Skips ==
    /\ pc = "plot"
    /\ pc' = Advance(i)
    /\ i' = i + 1
    /\ UNCHANGED <<weather_data, success, exc, bucketExists, objects, calls, saves, clock, ticks>>
PlotStep ==
    /\ pc = "plot"
    /\ IF ~HasKeys(weather_data, PlotFields)
       THEN /\ pc' = "crashed"
            /\ exc' = "KeyError"
            /\ UNCHANGED <<i, calls>>
       ELSE \E renderOk \in BOOLEAN :
               /\ calls' = Append(calls, Call("render", Cities[i], renderOk, "",
                                              weather_data, 0))
               /\ IF renderOk
                  THEN /\ pc' = Advance(i)
                       /\ i' = i + 1
                       /\ exc' = exc
                  ELSE /\ pc' = "crashed"
                       /\ exc' = "RenderError"
                       /\ i' = i
    /\ UNCHANGED <<weather_data, success, bucketExists, objects, saves, clock, ticks>>

\* the wall clock moves on by one second while the program runs; only
\* save_to_s3 reads it, so the time that passed since the last reading is
\* taken when the program is about to save
Tick ==
    /\ pc = "save"
    /\ ticks < MaxTicks
    /\ clock' = clock + 1
    /\ ticks' = ticks + 1
    /\ UNCHANGED <<pc, i, weather_data, success, exc, bucketExists, objects, calls, saves>>

Next ==
    \/ CreateBucketIfNotExists
    \/ FetchWeather
    \/ PrintDetails
    \/ SaveStep
    \/ PlotStep
    \/ Tick

Spec == Init /\ [][Next]_vars

(* ------------------- save_to_s3 called on its own ---------------------- *)

\* the cities and observations save_to_s3 is called with
SaveCities == <<"Seattle", "New York", "New">>

SaveData ==
    {None} \cup {Dict(Payload(S, v)) : S \in {{}, {"temp"}, MainFields, PayloadKeys},
                                       v \in 1..MaxVal}

InitSave ==
    /\ pc = "choose"
    /\ i = 1
    /\ weather_data = None
    /\ success = FALSE
    /\ exc = "none"
    /\ bucketExists \in BOOLEAN
    /\ objects = [k \in {} |-> <<>>]
    /\ calls = <<>>
    /\ saves = 0
    /\ clock \in ClockStarts
    /\ ticks = 0

\* the caller picks the arguments of the next call
ChooseArguments ==
    /\ pc = "choose"
    /\ saves < MaxCalls
    /\ i' \in DOMAIN SaveCities
    /\ weather_data' \in SaveData
    /\ pc' = "call"
    /\ UNCHANGED <<success, exc, bucketExists, objects, calls, saves, clock, ticks>>

\* success = dashboard.save_to_s3(weather_data, city)
CallSaveToS3 ==
    /\ pc = "call"
    /\ \E putOk \in BOOLEAN :
          /\ putOk => bucketExists
          /\ LET r == SaveToS3(weather_data, SaveCities[i], clock, putOk, objects)
             IN  /\ success' = r.ret
                 /\ weather_data' = r.wd
                 /\ objects' = r.objects
                 /\ calls' = calls \o r.issued
    /\ saves' = saves + 1
    /\ pc' = "choose"
    /\ UNCHANGED <<i, exc, bucketExists, clock, ticks>>

\* the wall clock moves on between the calls; save_to_s3 reads it, so the
\* time that passed is taken when a call is about to be made
TickSave ==
    /\ pc = "call"
    /\ ticks < MaxTicks
    /\ clock' = clock + 1
    /\ ticks' = ticks + 1
    /\ UNCHANGED <<pc, i, weather_data, success, exc, bucketExists, objects, calls, saves>>

NextSave ==
    \/ ChooseArguments
    \/ CallSaveToS3
    \/ TickSave

SpecSave == InitSave /\ [][NextSave]_vars

(* ------------------------ reading the history -------------------------- *)

\* position of a configured city in the list
CityIndex(c) == CHOOSE j \in DOMAIN Cities : Cities[j] = c

\* the k-th call is a fetch that returned None (RequestException caught)
FetchFailedAt(k) == calls[k].op = "fetch" /\ calls[k].data.isNone

\* the k-th call is a fetch whose result carries all four fields main() reads
FetchUsableAt(k) == calls[k].op = "fetch" /\ HasKeys(calls[k].data, MainFields)

\* the k-th call is a fetch that returned a truthy payload lacking a field
FetchMalformedAt(k) ==
    /\ calls[k].op = "fetch"
    /\ Truthy(calls[k].data)
    /\ ~HasKeys(calls[k].data, MainFields)

\* no put and no render was issued for city c
NoPutNoRender(c) ==
    \A m \in DOMAIN calls : calls[m].op \in {"put", "render"} => calls[m].city # c

\* after the fetch at position k the loop has moved, or is moving, on to the
\* next city of the list
MovesOnAfter(k) ==
    LET j == CityIndex(calls[k].city) IN
    IF k < Len(calls)
    THEN /\ j < Len(Cities)
         /\ calls[k + 1].op = "fetch"
         /\ calls[k + 1].city = Cities[j + 1]
    ELSE \/ pc = "details" /\ i = j
         \/ j < Len(Cities) /\ pc = "fetch" /\ i = j + 1
         \/ j = Len(Cities) /\ pc = "done"

\* the calls of the location loop (everything but the container setup)
IsLoopCall(c) == c.op \in {"fetch", "put", "render"}
LoopCalls == SelectSeq(calls, IsLoopCall)

StageOrder == <<"fetch", "put", "render">>

\* the setup ended with the probe and the creation both failing
SetupFailed == \E k \in DOMAIN calls : calls[k].op = "create" /\ ~calls[k].ok

(* ------------------------------- claims -------------------------------- *)

\* C1: when fetch_weather fails for a location (returns None), no put and no
\* render is issued for that location and the next call is the fetch of the
\* next location of the list (or the run ends after the last one).
C1_FailedFetchSkipsLocation ==
    \A k \in DOMAIN calls :
        FetchFailedAt(k) => NoPutNoRender(calls[k].city) /\ MovesOnAfter(k)

\* a failed fetch has been followed by the fetch of the next city, which
\* went on to be saved
C1_Witness ==
    \E k \in DOMAIN calls :
        /\ FetchFailedAt(k)
        /\ k + 1 < Len(calls)
        /\ calls[k + 1].op = "fetch"
        /\ calls[k + 2].op = "put"

\* C2: a success response lacking one of the four dereferenced fields is
\* handled like a failed fetch: no put, no render, no exception escapes, and
\* the loop moves on to the remaining locations.
C2_MalformedPayloadIsFetchError ==
    \A k \in DOMAIN calls :
        FetchMalformedAt(k) =>
            /\ NoPutNoRender(calls[k].city)
            /\ pc # "crashed"
            /\ MovesOnAfter(k)

\* C3: whatever the setup, fetch, put and render stages answer (each fetch
\* either fails or yields a usable observation), the run ends normally and
\* every configured location has been fetched.
C3_EveryOutcomeRunsToTheEnd ==
    (\A k \in DOMAIN calls : calls[k].op = "fetch" => FetchFailedAt(k) \/ FetchUsableAt(k))
    => /\ pc # "crashed"
       /\ pc = "done" =>
            \A j \in DOMAIN Cities :
                \E k \in DOMAIN calls : calls[k].op = "fetch" /\ calls[k].city = Cities[j]

\* C4: a failed put makes save_to_s3 return False without raising, and the
\* render for that location is still issued on the in-memory observation;
\* a location is rendered exactly when its fetch gave a usable observation.
C4_PutFailureStillRenders ==
    /\ \A k \in DOMAIN calls :
          (calls[k].op = "put" /\ ~calls[k].ok) =>
              IF k < Len(calls)
              THEN /\ calls[k + 1].op = "render"
                   /\ calls[k + 1].city = calls[k].city
                   /\ calls[k + 1].data = calls[k].data
              ELSE /\ pc = "plot"
                   /\ success = FALSE
                   /\ exc = "none"
                   /\ weather_data = calls[k].data
    /\ \A k \in DOMAIN calls :
          calls[k].op = "render" =>
              \E m \in 1..(k - 1) :
                  /\ FetchUsableAt(m)
                  /\ calls[m].city = calls[k].city
                  /\ \A f \in DOMAIN calls[m].data.d \ {"timestamp"} :
                        calls[k].data.d[f] = calls[m].data.d[f]
    /\ \A k \in DOMAIN calls :
          (FetchUsableAt(k) /\ (CityIndex(calls[k].city) < i \/ pc \in {"done", "crashed"})) =>
              \E m \in DOMAIN calls :
                  m > k /\ calls[m].op = "render" /\ calls[m].city = calls[k].city

\* a put failed, the render of the same city followed, and the run ended
C4_Witness ==
    /\ pc = "done"
    /\ \E k \in DOMAIN calls :
          /\ calls[k].op = "put" /\ ~calls[k].ok
          /\ k < Len(calls)
          /\ calls[k + 1].op = "render" /\ calls[k + 1].ok

\* C5: when create_bucket_if_not_exists fails (probe and creation both
\* fail) the run goes on into the location loop, and every fetch that gives
\* a usable observation is followed by a put attempt for that location.
C5_SetupFailureNotFatal ==
    SetupFailed =>
        /\ (calls[Len(calls)].op = "create") => (pc = "fetch" /\ i = 1 /\ exc = "none")
        /\ \A k \in DOMAIN calls :
              FetchUsableAt(k) =>
                  IF k < Len(calls)
                  THEN calls[k + 1].op = "put" /\ calls[k + 1].city = calls[k].city
                  ELSE pc \in {"details", "save"} /\ Cities[i] = calls[k].city

\* the setup failed and a put was nevertheless attempted for all three cities
C5_Witness ==
    /\ SetupFailed
    /\ \A j \in DOMAIN Cities :
          \E k \in DOMAIN calls : calls[k].op = "put" /\ calls[k].city = Cities[j]

\* C6: when every fetch returns a valid payload, the loop's calls are fetch,
\* put, render for the first city, then for the second, and so on in list
\* order, one of each per city; a render has returned before the next fetch.
C6_ValidRunOrder ==
    (\A k \in DOMAIN calls : calls[k].op = "fetch" => FetchUsableAt(k)) =>
        /\ Len(LoopCalls) <= 3 * Len(Cities)
        /\ \A m \in DOMAIN LoopCalls :
              /\ LoopCalls[m].op = StageOrder[((m - 1) % 3) + 1]
              /\ LoopCalls[m].city = Cities[((m - 1) \div 3) + 1]
              /\ (LoopCalls[m].op = "render" /\ m < Len(LoopCalls)) => LoopCalls[m].ok
        /\ pc = "done" => Len(LoopCalls) = 3 * Len(Cities)

\* a run over three valid payloads has ended
C6_Witness ==
    /\ pc = "done"
    /\ \A k \in DOMAIN calls : calls[k].op = "fetch" => FetchUsableAt(k)
    /\ Len(LoopCalls) = 3 * Len(Cities)

\* C7: save_to_s3 called with an absent observation (None or an empty dict)
\* returns False and issues no storage call: the stored objects, the call
\* history and the observation are as before.
C7_AbsentObservationNoStorage ==
    [][(pc = "call" /\ pc' = "choose" /\ ~Truthy(weather_data)) =>
          /\ success' = FALSE
          /\ objects' = objects
          /\ calls' = calls
          /\ weather_data' = weather_data]_vars

\* save_to_s3 has just returned from a call with an absent observation, made
\* after an earlier call had stored an object and returned True
C7_Witness ==
    /\ pc = "choose"
    /\ saves > 1
    /\ ~Truthy(weather_data)
    /\ success = FALSE
    /\ DOMAIN objects # {}

\* C8: two save_to_s3 calls derive the same key exactly when they agree on
\* the city and on the second of capture; a put under an existing key
\* replaces the object (one object per key, holding the last body written).
C8_KeyPerCityAndSecond ==
    /\ \A k, m \in DOMAIN calls :
          (calls[k].key = calls[m].key) <=>
              (calls[k].city = calls[m].city /\ calls[k].t = calls[m].t)
    /\ DOMAIN objects = {calls[k].key : k \in {m \in DOMAIN calls : calls[m].ok}}
    /\ \A k \in DOMAIN calls :
          (calls[k].ok /\ \A m \in DOMAIN calls :
                              (m > k /\ calls[m].ok) => calls[m].key # calls[k].key)
          => JsonLoads(objects[calls[k].key]) = calls[k].data.d
    /\ exc = "none"

\* two successful puts of different observations for one city within one
\* second, leaving a single object
C8_Witness ==
    \E k, m \in DOMAIN calls :
        /\ k < m
        /\ calls[k].ok /\ calls[m].ok
        /\ calls[k].city = calls[m].city /\ calls[k].t = calls[m].t
        /\ calls[k].data # calls[m].data
        /\ Cardinality(DOMAIN objects) = 1

\* the put at position k stored its body, and that body reads back with
\* every fetched field f in fs at its fetched value and the capture time of
\* the key under the name stampName
StoredAsFetched(k, fs, stampName) ==
    LET c      == calls[k]
        m      == CHOOSE n \in 1..(k - 1) : calls[n].op = "fetch" /\ calls[n].city = c.city
        stored == JsonLoads(objects[c.key])
    IN  /\ c.key = "weather-data/" \o c.city \o "-" \o Strftime(c.t) \o ".json"
        /\ \A f \in DOMAIN calls[m].data.d \cap fs :
              f \in DOMAIN stored /\ stored[f] = calls[m].data.d[f]
        /\ stampName \in DOMAIN stored
        /\ stored[stampName] = Strftime(c.t)

\* C9 as stated: every successful record writes weather-data/{L}-{time}.json
\* whose body holds every fetched field at its fetched value plus a
\* `captured_at` field equal to the capture time of the key.
C9_StoredBodyHasCapturedAt ==
    \A k \in DOMAIN calls :
        (calls[k].op = "put" /\ calls[k].ok) => StoredAsFetched(k, PayloadKeys, "captured_at")

\* C9 amended: every successful record writes weather-data/{L}-{time}.json
\* whose body holds every fetched field other than a top-level `timestamp`
\* at its fetched value, plus a `timestamp` field equal to the capture time
\* of the key (it replaces a `timestamp` the payload carried).
C9_StoredBodyHasTimestamp ==
    \A k \in DOMAIN calls :
        (calls[k].op = "put" /\ calls[k].ok) =>
            StoredAsFetched(k, PayloadKeys \ {"timestamp"}, "timestamp")

\* an observation carrying the provider's own `timestamp` has been stored
C9_Witness ==
    \E k \in DOMAIN calls :
        /\ calls[k].op = "put" /\ calls[k].ok
        /\ calls[k].key \in DOMAIN objects
        /\ \E m \in 1..(k - 1) :
              /\ calls[m].op = "fetch" /\ calls[m].city = calls[k].city
              /\ DOMAIN calls[m].data.d = PayloadKeys

\* C10: the container setup runs once, before any fetch or put: the probe is
\* the first call, creation is the second call and only after a failed
\* probe, and neither is issued again once the location loop has started.
C10_SetupOnceBeforeLoop ==
    /\ pc = "setup" <=> calls = <<>>
    /\ calls # <<>> => calls[1].op = "head"
    /\ \A k \in DOMAIN calls :
          /\ calls[k].op = "head" => k = 1
          /\ calls[k].op = "create" => (k = 2 /\ ~calls[1].ok)
          /\ (k = 2 /\ ~calls[1].ok) => calls[k].op = "create"

\* the probe failed, the bucket was created, and the loop has stored an object
C10_Witness ==
    /\ Len(calls) > 2
    /\ ~calls[1].ok
    /\ calls[2].op = "create" /\ calls[2].ok
    /\ \E k \in DOMAIN calls : calls[k].op = "put" /\ calls[k].ok

====
